---- MODULE Spec2Model ----
(***************************************************************************)
(* The offline response-cache controller of ha-pass (static/sw.js): the    *)
(* service worker's install, activate and fetch handlers, run against the  *)
(* browser's CacheStorage (an ordered map from cache name to cache) and    *)
(* an opaque network.  Every asynchronous settlement of the handlers       *)
(* (caches.match, fetch, caches.open().put, caches.delete) is one step, so *)
(* that the interleavings of concurrent requests and of a generation       *)
(* transition are explored.                                                *)
(***************************************************************************)
EXTENDS Integers, Sequences, FiniteSets, Bags, TLC

\* ------------------------------------------------------------------ bounds
\* Number of deployed worker generations (each build has its own CACHE_VERSION).
MaxGen == 2
\* Number of fetch events that can be in flight at once.
MaxReq == 2
\* Number of distinct response bodies the network can answer with.
MaxBody == 2

Bodies == 1..MaxBody

\* --------------------------------------------------------------- responses
\* What a promise of the handler settles to: a Response (ok or with an error
\* status), undefined (a cache miss), or a rejection (network error).
Undefined == [kind |-> "undefined", ok |-> FALSE, body |-> 0]
NetworkError == [kind |-> "networkError", ok |-> FALSE, body |-> 0]
OkResponse(b) == [kind |-> "response", ok |-> TRUE, body |-> b]
ErrResponse == [kind |-> "response", ok |-> FALSE, body |-> 0]

\* The outcomes of fetch(request): it resolves with any response the origin
\* sends, whatever its status, and rejects only when the network fails.
FetchOutcomes == {OkResponse(b) : b \in Bodies} \cup {ErrResponse, NetworkError}

\* -------------------------------------------------------------------- URLs
ORIGIN == "ha-pass.local"
Url(h, p) == [hostname |-> h, pathname |-> p]
NoUrl == Url("", "")

\* String.prototype.startsWith / includes on the pathname.
StartsWith(s, p) == Len(s) >= Len(p) /\ SubSeq(s, 1, Len(p)) = p
Includes(s, p) == \E i \in 1..(Len(s) - Len(p) + 1) : SubSeq(s, i, i + Len(p) - 1) = p

CacheVersion(g) == g

\* Mutant: the application manifest is pre-cached with the shell.
SHELL_ASSETS_MANIFEST ==
  << "/static/dist.css",
     "/static/icons/icon-192.png",
     "/static/icons/icon-512.png",
     "/static/icons/icon-maskable-192.png",
     "/static/icons/icon-maskable-512.png",
     "/static/domains.js",
     "/static/theme.js",
     "/static/util.js",
     "/static/qrcode.min.js",
     "/manifest.json" >>

SHELL_ASSETS ==
  << "/static/dist.css",
     "/static/icons/icon-192.png",
     "/static/icons/icon-512.png",
     "/static/icons/icon-maskable-192.png",
     "/static/icons/icon-maskable-512.png",
     "/static/domains.js",
     "/static/theme.js",
     "/static/util.js",
     "/static/qrcode.min.js" >>

\* The request a shell asset path stands for: resolved against the worker's origin.
ShellRequest(i) == Url(ORIGIN, SHELL_ASSETS[i])
ShellRequests == {ShellRequest(i) : i \in DOMAIN SHELL_ASSETS}

\* The requests the clients issue (GET), one or more of every route.
ReqUrls ==
  { Url(ORIGIN, "/static/dist.css"),
    Url("fonts.googleapis.com", "/css2"),
    Url(ORIGIN, "/g/abc"),
    Url(ORIGIN, "/g/abc/stream"),
    Url(ORIGIN, "/g/abc/state"),
    Url(ORIGIN, "/g/abc/command"),
    Url(ORIGIN, "/manifest.json"),
    Url(ORIGIN, "/admin/dashboard") }

\* ------------------------------------------------------ route classification
\* Mutant: the '/state' pattern is missing from the exclusion check.
IsExcludedNoState(url) ==
  \/ Includes(url.pathname, "/stream")
  \/ StartsWith(url.pathname, "/admin")
  \/ Includes(url.pathname, "/command")
  \/ Includes(url.pathname, "/manifest.json")

IsExcluded(url) ==
  \/ Includes(url.pathname, "/stream")
  \/ StartsWith(url.pathname, "/admin")
  \/ Includes(url.pathname, "/state")
  \/ Includes(url.pathname, "/command")
  \/ Includes(url.pathname, "/manifest.json")

\* Mutant: every path of the worker's own origin is taken for a shell asset.
IsShellAssetAnyPath(url) == url.hostname = ORIGIN

IsShellAsset(url) == StartsWith(url.pathname, "/static/")

IsFontHost(url) ==
  \/ url.hostname = "fonts.googleapis.com"
  \/ url.hostname = "fonts.gstatic.com"

\* Mutant: the host check comes before the '/static/' check.
RouteFontFirst(url) ==
  IF IsExcluded(url) THEN "excluded"
  ELSE IF IsFontHost(url) THEN "cache-first"
  ELSE IF IsShellAsset(url) THEN "stale-while-revalidate"
  ELSE "network-first"

\* The branch of the fetch handler a request takes (first match wins).
Route(url) ==
  IF IsExcluded(url) THEN "excluded"
  ELSE IF IsShellAsset(url) THEN "stale-while-revalidate"
  ELSE IF IsFontHost(url) THEN "cache-first"
  ELSE "network-first"

\* ------------------------------------------------------------ CacheStorage
\* CacheStorage is an ordered map name -> cache; a cache maps a request to a
\* response.  It is a sequence of [name, entries] in creation order.
EmptyEntries == [k \in {} |-> Undefined]

CacheNames(cs) == {cs[i].name : i \in DOMAIN cs}
HasCache(cs, n) == n \in CacheNames(cs)
CacheIndex(cs, n) == CHOOSE i \in DOMAIN cs : cs[i].name = n
EntriesOf(cs, n) == IF HasCache(cs, n) THEN cs[CacheIndex(cs, n)].entries ELSE EmptyEntries

\* caches.open(name): the cache of that name, created empty if absent.
CachesOpen(cs, n) ==
  IF HasCache(cs, n) THEN cs ELSE Append(cs, [name |-> n, entries |-> EmptyEntries])

\* Mutant: a put replaces the whole content of the cache by the one entry.
CachePutClobber(cs, n, url, r) ==
  [i \in DOMAIN cs |->
     IF cs[i].name = n THEN [cs[i] EXCEPT !.entries = [k \in {url} |-> r]] ELSE cs[i]]

\* cache.put(request, response) on the cache named n (which exists).
CachePut(cs, n, url, r) ==
  [i \in DOMAIN cs |->
     IF cs[i].name = n
       THEN [cs[i] EXCEPT !.entries =
               [k \in DOMAIN cs[i].entries \cup {url} |->
                  IF k = url THEN r ELSE cs[i].entries[k]]]
       ELSE cs[i]]

\* caches.delete(name).
RECURSIVE CachesDelete(_, _)
CachesDelete(cs, n) ==
  IF cs = << >> THEN << >>
  ELSE IF Head(cs).name = n THEN CachesDelete(Tail(cs), n)
  ELSE << Head(cs) >> \o CachesDelete(Tail(cs), n)

\* caches.match(request): the caches are searched in creation order and the
\* first one holding the request answers; undefined when none holds it.
MatchIndexes(cs, url) == {i \in DOMAIN cs : url \in DOMAIN cs[i].entries}
MatchIndex(cs, url) ==
  CHOOSE i \in MatchIndexes(cs, url) : \A j \in MatchIndexes(cs, url) : i <= j
CachesMatch(cs, url) ==
  IF MatchIndexes(cs, url) = {} THEN Undefined ELSE cs[MatchIndex(cs, url)].entries[url]
\* The name of the cache that answered caches.match (0 when none did).
CachesMatchStore(cs, url) ==
  IF MatchIndexes(cs, url) = {} THEN 0 ELSE cs[MatchIndex(cs, url)].name

\* ------------------------------------------------------------------- state
VARIABLES
  caches,      \* CacheStorage of the origin
  deployed,    \* number of worker builds the origin has served so far
  installing,  \* generation of the worker whose install event is running (0: none)
  waiting,     \* generation of the installed worker about to activate (0: none)
  failed,      \* generations whose install event failed (their worker is redundant)
  active,      \* generation of the registration's active worker (0: none)
  phase,       \* "none" | "activating" | "activated": state of the active worker
  pendingDel,  \* names whose caches.delete() of an activate handler has not settled
  delRejected, \* a caches.delete() of the running activate handler rejected
  reqs,        \* the fetch events in flight (a bag: equal requests may overlap)
  netOk,       \* cache-first requests the network has answered ok once (observer)
  obs          \* what the last step showed to a client or did to a cache (observer)

vars == << caches, deployed, installing, waiting, failed, active, phase, pendingDel,
           delRejected, reqs, netOk, obs >>

\* A request in flight: its place in the promise chain (pc), the worker that
\* handles it (gen), whether caches.match found it (hit), whether its client
\* has its response (responded), the response cloned for the cache (clone),
\* whether it was issued after the network had answered the same cache-first
\* request (late).
NoReq == [pc |-> "none", url |-> NoUrl, gen |-> 0, route |-> "none",
          hit |-> FALSE, responded |-> FALSE, clone |-> Undefined, late |-> FALSE]

\* The record of a step: a response handed to a client ("respond"), a request
\* left to the browser ("bypass"), a settled cache.put ("put"), a write that
\* was lost ("dropped"); NoObs after
\* any other step.  store is the cache read or written, active the active
\* generation at that moment, hit whether caches.match had found the request,
\* again whether the client had been answered before.
Obs(kind, url, gen, route, via, resp, store, hit, again) ==
  [kind |-> kind, url |-> url, gen |-> gen, route |-> route, via |-> via,
   resp |-> resp, store |-> store, active |-> active, hit |-> hit, again |-> again]
NoObs == [kind |-> "none", url |-> NoUrl, gen |-> 0, route |-> "none", via |-> "none",
          resp |-> Undefined, store |-> 0, active |-> 0, hit |-> FALSE, again |-> FALSE]

Init ==
  /\ caches = << >>
  /\ deployed = 0
  /\ installing = 0
  /\ waiting = 0
  /\ failed = {}
  /\ active = 0
  /\ phase = "none"
  /\ pendingDel = {}
  /\ delRejected = FALSE
  /\ reqs = EmptyBag
  /\ netOk = {}
  /\ obs = NoObs

\* ----------------------------------------------------------------- install
\* cache.addAll(SHELL_ASSETS): every asset is fetched, and only when every
\* fetch gave an ok response are they all put; failedAt is the first asset
\* whose fetch failed (0: none), b the body the origin serves for this build.
\* Mutant: the assets are put one by one, so those before the failing one stay.
AddAllPartial(cs, n, b, failedAt) ==
  [i \in DOMAIN cs |->
     IF cs[i].name = n
       THEN [cs[i] EXCEPT !.entries =
               [k \in DOMAIN cs[i].entries \cup
                       {ShellRequest(j) : j \in {j \in DOMAIN SHELL_ASSETS :
                                                   failedAt = 0 \/ j < failedAt}} |->
                  IF k \in ShellRequests THEN OkResponse(b) ELSE cs[i].entries[k]]]
       ELSE cs[i]]

AddAll(cs, n, b, failedAt) ==
  IF failedAt # 0 THEN cs
  ELSE [i \in DOMAIN cs |->
          IF cs[i].name = n
            THEN [cs[i] EXCEPT !.entries =
                    [k \in DOMAIN cs[i].entries \cup ShellRequests |->
                       IF k \in ShellRequests THEN OkResponse(b) ELSE cs[i].entries[k]]]
            ELSE cs[i]]

\* Mutant: the worker is installed whatever addAll did.
InstalledAlways(g, failedAt) == g

\* The worker that leaves the install event as installed: the waitUntil
\* promise rejects when addAll rejects, and the worker is then discarded.
Installed(g, failedAt) == IF failedAt = 0 THEN g ELSE 0

\* The install event of the next build: caches.open(CACHE_VERSION) settles.
InstallOpen ==
  /\ deployed < MaxGen
  /\ installing = 0
  /\ waiting = 0
  /\ phase # "activating"
  /\ deployed' = deployed + 1
  /\ installing' = deployed + 1
  /\ caches' = CachesOpen(caches, CacheVersion(deployed + 1))
  /\ UNCHANGED << waiting, failed, active, phase, pendingDel, delRejected, reqs, netOk >>
  /\ obs' = NoObs

\* cache.addAll(SHELL_ASSETS) settles and with it the install event.
InstallAddAll ==
  /\ installing # 0
  /\ \E b \in Bodies, failedAt \in 0..Len(SHELL_ASSETS) :
       /\ caches' = AddAll(caches, CacheVersion(installing), b, failedAt)
       /\ waiting' = Installed(installing, failedAt)
       /\ failed' = IF Installed(installing, failedAt) = 0
                       THEN failed \cup {installing} ELSE failed
  /\ installing' = 0
  /\ UNCHANGED << deployed, active, phase, pendingDel, delRejected, reqs, netOk >>
  /\ obs' = NoObs

\* ---------------------------------------------------------------- activate
\* The names the activate handler deletes: every key but CACHE_VERSION.
StaleNames(cs, g) == {k \in CacheNames(cs) : k # CacheVersion(g)}

\* skipWaiting() was called in the install handler, so the installed worker
\* replaces the active one at once; its activate handler reads caches.keys()
\* and starts one caches.delete per stale name.
ActivateStart ==
  /\ waiting # 0
  /\ active' = waiting
  /\ waiting' = 0
  /\ phase' = "activating"
  /\ pendingDel' = pendingDel \cup StaleNames(caches, waiting)
  /\ delRejected' = FALSE
  /\ UNCHANGED << caches, deployed, installing, failed, reqs, netOk >>
  /\ obs' = NoObs

\* One caches.delete(k) settles: the cache is removed, or the delete rejects.
DeleteSettle ==
  \E k \in pendingDel, ok \in BOOLEAN :
    /\ pendingDel' = pendingDel \ {k}
    /\ caches' = IF ok THEN CachesDelete(caches, k) ELSE caches
    /\ delRejected' = (delRejected \/ (~ok /\ phase = "activating"))
    /\ UNCHANGED << deployed, installing, waiting, failed, active, phase, reqs, netOk >>
  /\ obs' = NoObs

\* The waitUntil promise of the activate event settles (Promise.all: when all
\* deletes resolved, or as soon as one rejected); the worker is activated
\* either way and clients.claim() makes it the controller of the open clients.
ActivateDone ==
  /\ phase = "activating"
  /\ pendingDel = {} \/ delRejected
  /\ phase' = "activated"
  /\ UNCHANGED << caches, deployed, installing, waiting, failed, active, pendingDel,
                  delRejected, reqs, netOk >>
  /\ obs' = NoObs

\* ------------------------------------------------------------ fetch handler
\* What no step of a fetch event changes.
lifecycle == << deployed, installing, waiting, failed, active, phase, pendingDel,
               delRejected >>

\* The branch of each request of the clients.
RouteOf == [u \in ReqUrls |-> Route(u)]

InFlight == BagToSet(reqs)

\* Request s moves on as t, or ends (t = NoReq).
Step(s, t) ==
  IF t = NoReq THEN reqs (-) SetToBag({s}) ELSE (reqs (-) SetToBag({s})) (+) SetToBag({t})

\* A response reaches the client of request s.
Respond(s, via, resp, store) ==
  Obs("respond", s.url, s.gen, s.route, via, resp, store, s.hit, s.responded)

\* The synchronous part of the fetch listener: an excluded request returns
\* without respondWith and is left to the browser; any other request starts
\* the promise chain of its branch (caches.match first, or fetch first).
FirstStep(route) == IF route = "network-first" THEN "fetch" ELSE "match"

FetchEvent ==
  /\ active # 0
  /\ phase = "activated"
  /\ \E url \in ReqUrls :
       IF RouteOf[url] = "excluded"
         THEN /\ obs' = Obs("bypass", NoUrl, active, "excluded", "none", Undefined, 0,
                            FALSE, FALSE)
              /\ reqs' = reqs
         ELSE /\ BagCardinality(reqs) < MaxReq
              /\ reqs' = reqs (+) SetToBag({
                           [pc |-> FirstStep(RouteOf[url]), url |-> url, gen |-> active,
                            route |-> RouteOf[url], hit |-> FALSE,
                            responded |-> FALSE, clone |-> Undefined,
                            late |-> (url \in netOk)]})
              /\ obs' = NoObs
  /\ UNCHANGED << caches, lifecycle, netOk >>

\* Mutant: the handler always returns the fetch's promise.
ReturnsCachedNever(cached) == FALSE

\* `cached || fetchPromise`: the cached response is the value of the promise
\* given to respondWith whenever caches.match found one.
ReturnsCached(cached) == cached # Undefined

\* Mutant: the fetched response is handed to the client whenever it arrives.
AnswersAlways(s) == TRUE

\* The settlement of the fetch reaches the client only when the promise given
\* to respondWith is the fetch's promise.
Answers(s) == ~s.responded

\* stale-while-revalidate: caches.match settles; the fetch is started and the
\* cached response, if any, is returned.
SwrMatch(s) ==
  /\ s.pc = "match"
  /\ s.route = "stale-while-revalidate"
  /\ LET c == CachesMatch(caches, s.url)
         t == [s EXCEPT !.pc = "fetch", !.hit = (c # Undefined),
                       !.responded = ReturnsCached(c)]
     IN /\ reqs' = Step(s, t)
        /\ obs' = IF ReturnsCached(c)
                    THEN Respond([s EXCEPT !.hit = TRUE], "cache", c,
                                 CachesMatchStore(caches, s.url))
                    ELSE NoObs
  /\ UNCHANGED << caches, lifecycle, netOk >>

\* A fetch of the stale-while-revalidate or cache-first branch settles: a
\* response is cloned for the cache and returned; a rejection is returned.
FetchThenPut(s, out) ==
  /\ reqs' = Step(s, IF out = NetworkError THEN NoReq
                     ELSE [s EXCEPT !.pc = "put", !.hit = FALSE, !.responded = FALSE,
                               !.clone = out, !.late = FALSE])
  /\ obs' = IF Answers(s)
              THEN Respond(s, IF out = NetworkError THEN "failure" ELSE "network", out, 0)
              ELSE NoObs

SwrFetch(s) ==
  /\ s.pc = "fetch"
  /\ s.route = "stale-while-revalidate"
  /\ \E out \in FetchOutcomes : FetchThenPut(s, out)
  /\ UNCHANGED << caches, lifecycle, netOk >>

\* cache-first: caches.match settles; a hit is returned, a miss goes to the network.
CacheFirstMatch(s) ==
  /\ s.pc = "match"
  /\ s.route = "cache-first"
  /\ LET c == CachesMatch(caches, s.url)
     IN IF ReturnsCached(c)
          THEN /\ reqs' = Step(s, NoReq)
               /\ obs' = Respond([s EXCEPT !.hit = TRUE], "cache", c,
                                 CachesMatchStore(caches, s.url))
          ELSE /\ reqs' = Step(s, [s EXCEPT !.pc = "fetch", !.hit = (c # Undefined)])
               /\ obs' = NoObs
  /\ UNCHANGED << caches, lifecycle, netOk >>

CacheFirstFetch(s) ==
  /\ s.pc = "fetch"
  /\ s.route = "cache-first"
  /\ \E out \in FetchOutcomes :
       /\ FetchThenPut(s, out)
       /\ netOk' = IF out.ok THEN netOk \cup {s.url} ELSE netOk
  /\ UNCHANGED << caches, lifecycle >>

\* fetch(request).catch(...): the catch handler runs when the promise rejects.
Rejected(out) == out = NetworkError

\* Mutant: the network-first branch stores the response like the other branches.
NetworkFirstThenPut(s, out) ==
  [s EXCEPT !.pc = "put", !.hit = FALSE, !.responded = FALSE, !.clone = out]

\* What follows a resolved fetch in the network-first branch: the promise
\* given to respondWith is the fetch's own, no then-handler clones or stores
\* the response, and the event is over.
NetworkFirstThen(s, out) == NoReq

\* network-first: the fetch settles; a response is returned as it is.
NetworkFirstFetch(s) ==
  /\ s.pc = "fetch"
  /\ s.route = "network-first"
  /\ \E out \in FetchOutcomes :
       IF Rejected(out)
         THEN /\ reqs' = Step(s, [s EXCEPT !.pc = "fallback"])
              /\ obs' = NoObs
         ELSE /\ reqs' = Step(s, NetworkFirstThen(s, out))
              /\ obs' = Respond(s, "network", out, 0)
  /\ UNCHANGED << caches, lifecycle, netOk >>

\* Mutant: the catch handler answers with whatever the first cache holds.
FallbackAny(cs, url) ==
  IF cs = << >> \/ DOMAIN cs[1].entries = {} THEN Undefined
  ELSE cs[1].entries[CHOOSE k \in DOMAIN cs[1].entries : TRUE]

\* Mutant: the catch handler returns nothing.
FallbackNothing(cs, url) == Undefined

\* The value of the catch handler: caches.match(request); undefined given to
\* respondWith is a network error for the client.
Fallback(cs, url) == CachesMatch(cs, url)

NetworkFirstFallback(s) ==
  /\ s.pc = "fallback"
  /\ LET c == Fallback(caches, s.url)
     IN /\ reqs' = Step(s, NoReq)
        /\ obs' = IF c = Undefined
                    THEN Respond(s, "failure", NetworkError, 0)
                    ELSE Respond([s EXCEPT !.hit = TRUE], "cache", c,
                                 CachesMatchStore(caches, s.url))
  /\ UNCHANGED << caches, lifecycle, netOk >>

\* caches.open(CACHE_VERSION) of the worker that handled the request.
PutTarget(s) == CacheVersion(s.gen)

\* Mutant: the handler returns the promise of the write, so that its rejection
\* becomes the client's response.
PutFailurePropagates(s) == Respond(s, "failure", NetworkError, 0)

\* What a rejected caches.open or cache.put does: the promise is neither
\* returned nor awaited nor caught, so the rejection reaches nobody ("dropped"
\* records that a write of that branch was lost).
PutFailure(s) ==
  Obs("dropped", NoUrl, 0, s.route, "none", Undefined, 0, FALSE, FALSE)

\* caches.open(CACHE_VERSION).then(cache => cache.put(request, clone)) settles.
\* Nothing awaits it: it may succeed at any later moment, or be lost (the open
\* or the put rejects, or the worker is stopped first).
PutSettle(s) ==
  /\ s.pc = "put"
  /\ \E ok \in BOOLEAN :
       IF ok
         THEN /\ caches' = CachePut(CachesOpen(caches, PutTarget(s)), PutTarget(s),
                                    s.url, s.clone)
              /\ obs' = Obs("put", s.url, s.gen, s.route, "none", s.clone,
                            PutTarget(s), FALSE, FALSE)
         ELSE /\ caches' = caches
              /\ obs' = PutFailure(s)
  /\ reqs' = Step(s, NoReq)
  /\ UNCHANGED << lifecycle, netOk >>

\* ----------------------------------------------------------- specification
Next ==
  \/ InstallOpen
  \/ InstallAddAll
  \/ ActivateStart
  \/ DeleteSettle
  \/ ActivateDone
  \/ FetchEvent
  \/ \E s \in InFlight : SwrMatch(s)
  \/ \E s \in InFlight : SwrFetch(s)
  \/ \E s \in InFlight : CacheFirstMatch(s)
  \/ \E s \in InFlight : CacheFirstFetch(s)
  \/ \E s \in InFlight : NetworkFirstFetch(s)
  \/ \E s \in InFlight : NetworkFirstFallback(s)
  \/ \E s \in InFlight : PutSettle(s)

Spec == Init /\ [][Next]_vars

\* CacheStorage belongs to the origin and outlives the workers: the same
\* handlers started with generation 1 installed and active and with its cache
\* already holding a response for a network-first request (put there by
\* another context of the origin; the handlers themselves never put one).
SeededUrl == Url(ORIGIN, "/g/abc")
InitSeeded ==
  /\ \E b \in Bodies :
       caches = CachePut(AddAll(CachesOpen(<< >>, CacheVersion(1)), CacheVersion(1), b, 0),
                         CacheVersion(1), SeededUrl, OkResponse(b))
  /\ deployed = 1
  /\ installing = 0
  /\ waiting = 0
  /\ failed = {}
  /\ active = 1
  /\ phase = "activated"
  /\ pendingDel = {}
  /\ delRejected = FALSE
  /\ reqs = EmptyBag
  /\ netOk = {}
  /\ obs = NoObs

SpecSeeded == InitSeeded /\ [][Next]_vars

\* ================================================================== claims
SWR == "stale-while-revalidate"
Stored(cs, url) == {cs[i].entries[url] : i \in MatchIndexes(cs, url)}

\* The classification alone, over every combination of host, path prefix and
\* path tail: a fetch event arrives ("request") and the synchronous part of
\* the listener chooses its branch ("classified").
RouteHosts == {ORIGIN, "fonts.googleapis.com", "fonts.gstatic.com"}
RoutePrefixes == {"/", "/static/", "/admin/", "/g/abc/"}
RouteTails == {"dist.css", "stream", "state", "command", "manifest.json", "css2", "admin"}
RouteUrls ==
  {Url(h, p \o t) : h \in RouteHosts, p \in RoutePrefixes, t \in RouteTails}
    \cup ShellRequests

InitRoute ==
  /\ caches = << >>
  /\ deployed = 0
  /\ installing = 0
  /\ waiting = 0
  /\ failed = {}
  /\ active = 0
  /\ phase = "none"
  /\ pendingDel = {}
  /\ delRejected = FALSE
  /\ reqs = EmptyBag
  /\ netOk = {}
  /\ \E u \in RouteUrls : obs = [NoObs EXCEPT !.kind = "request", !.url = u]

ClassifyEvent ==
  /\ obs.kind = "request"
  /\ obs' = [obs EXCEPT !.kind = "classified", !.route = Route(obs.url),
                        !.via = IF Route(obs.url) = "excluded" THEN "none"
                                ELSE FirstStep(Route(obs.url))]
  /\ UNCHANGED << caches, lifecycle, reqs, netOk >>

NextRoute == ClassifyEvent

SpecRoute == InitRoute /\ [][NextRoute]_vars

\* ---------------------------------------------------------------------- C1
\* The exclusion patterns as the claim lists them.
ExcludedByClaim(url) ==
  \/ Includes(url.pathname, "/stream")
  \/ Includes(url.pathname, "/state")
  \/ Includes(url.pathname, "/command")
  \/ Includes(url.pathname, "/manifest.json")
  \/ StartsWith(url.pathname, "/admin")

\* The requests the claim's patterns let the worker handle.  Every other
\* request, known or not, counts as excluded below.
HandledByClaim == {u \in ReqUrls \cup ShellRequests \cup {SeededUrl} : ~ExcludedByClaim(u)}

\* C1: a request matching an exclusion pattern never enters a promise chain of
\* the handler (so it reads no cache, is put in no cache and is given no
\* response by the worker), no cache holds such a request, and the step that
\* leaves it to the browser changes no cache and no request in flight.
NoExcludedHandled ==
  /\ \A s \in InFlight : s.url \in HandledByClaim
  /\ obs.kind \in {"respond", "put"} => obs.url \in HandledByClaim
  /\ \A i \in DOMAIN caches : DOMAIN caches[i].entries \subseteq HandledByClaim

C1_ExcludedUntouched ==
  [][/\ NoExcludedHandled'
     /\ obs'.kind = "bypass" => (caches' = caches /\ reqs' = reqs)]_vars

\* An excluded request was handled while caches existed and a request was in flight.
C1_Witness == obs.kind = "bypass" /\ caches # << >> /\ reqs # EmptyBag

\* ---------------------------------------------------------------------- C2
\* C2 (as claimed): once the activation of a generation has run and all its
\* deletes succeeded, no cache of an older generation exists, whatever the
\* requests in flight do afterwards.
C2_OldStoresGone ==
  (phase = "activated" /\ pendingDel = {} /\ ~delRejected)
    => \A n \in CacheNames(caches) : n >= CacheVersion(active)

\* ---------------------------------------------------------------------- C3
\* C3 (as claimed): no cache named for a generation whose install failed
\* under an active generation exists.
C3_NoStoreAfterFailedInstall ==
  \A g \in failed : (active # 0 /\ active < g) => ~HasCache(caches, CacheVersion(g))

\* C3 (amended): the cache of a generation whose install failed holds no
\* entry, that generation is neither installed nor active, and the failing
\* step leaves the active worker and every cache as they were.
FailedStoresEmpty ==
  \A g \in failed : /\ DOMAIN EntriesOf(caches, CacheVersion(g)) = {}
                    /\ active # g
                    /\ waiting # g

C3_FailedInstallKeepsPrior ==
  [][/\ FailedStoresEmpty'
     /\ failed' # failed => (active' = active /\ phase' = phase /\ caches' = caches)]_vars

\* The install of a later generation failed under an active generation whose
\* cache is in place; the failed generation's cache is still there.
C3_Witness ==
  \E g \in failed : /\ active # 0 /\ active < g /\ phase = "activated"
                    /\ HasCache(caches, CacheVersion(g))
                    /\ ShellRequests \subseteq DOMAIN EntriesOf(caches, CacheVersion(active))

\* ---------------------------------------------------------------------- C4
\* C4 (as claimed): a response the activated worker serves from a cache was
\* read from the cache of its own, active generation, and every put goes to
\* the cache of the generation active at that moment.
C4_OnlyActiveStore ==
  /\ (obs.kind = "respond" /\ obs.via = "cache" /\ obs.gen = active /\ phase = "activated")
       => obs.store = CacheVersion(active)
  /\ (obs.kind = "put" /\ phase = "activated") => obs.store = CacheVersion(active)

\* ---------------------------------------------------------------------- C5
\* C5 (as claimed): once the revalidation put of the active worker for a shell
\* asset has settled with an ok response, a request for that asset reads
\* that response.
C5_RevalidatedIsRead ==
  (obs.kind = "put" /\ obs.route = SWR /\ obs.gen = active /\ phase = "activated"
     /\ obs.resp.ok)
    => CachesMatch(caches, obs.url) = obs.resp

\* ---------------------------------------------------------------------- C6
\* C6 (as claimed): a cache-first request issued after the network answered
\* the same request once never goes to the network.
C6_NoSecondFetch ==
  \A s \in InFlight : ~(s.route = "cache-first" /\ s.late /\ s.pc = "fetch")

\* C6 (amended): a cache-first request for which caches.match found an entry
\* is answered with that entry and makes no network fetch.
C6_HitMakesNoFetch ==
  /\ \A s \in InFlight : (s.route = "cache-first" /\ s.pc = "fetch") => ~s.hit
  /\ (obs.kind = "respond" /\ obs.route = "cache-first" /\ obs.hit)
       => (obs.via = "cache" /\ obs.resp \in Stored(caches, obs.url))

\* A cache-first request was answered from the cache after the network had
\* answered the same request.
C6_Witness ==
  /\ obs.kind = "respond" /\ obs.route = "cache-first" /\ obs.via = "cache"
  /\ obs.url \in netOk

\* ---------------------------------------------------------------------- C7
\* C7: when the fetch of a network-first request rejects and no cache holds
\* the request, the client gets a network error, and answering a network-first
\* request changes no cache.
MissFails ==
  (obs.kind = "respond" /\ obs.route = "network-first" /\ obs.via # "network"
     /\ Stored(caches, obs.url) = {})
    => (obs.via = "failure" /\ obs.resp = NetworkError)

C7_FailurePropagated ==
  [][/\ MissFails'
     /\ (obs'.kind = "respond" /\ obs'.route = "network-first") => caches' = caches]_vars

\* A network-first request failed for its client while caches existed.
C7_Witness ==
  /\ obs.kind = "respond" /\ obs.route = "network-first" /\ obs.via = "failure"
  /\ caches # << >>

\* ---------------------------------------------------------------------- C8
\* C8: when the fetch of a network-first request rejects and a cache holds the
\* request, the client gets the stored response.
C8_FallbackIsStored ==
  (obs.kind = "respond" /\ obs.route = "network-first" /\ obs.via # "network"
     /\ Stored(caches, obs.url) # {})
    => (obs.via = "cache" /\ obs.resp \in Stored(caches, obs.url))

\* A network-first request was answered from the cache.
C8_Witness ==
  obs.kind = "respond" /\ obs.route = "network-first" /\ obs.via = "cache"

\* ---------------------------------------------------------------------- C9
\* C9 (as claimed): a network-first request that a cache holds is never
\* answered with a non-success response of the network.
C9_ErrorFallsBack ==
  ~(/\ obs.kind = "respond" /\ obs.route = "network-first"
    /\ obs.resp = ErrResponse
    /\ Stored(caches, obs.url) # {})

\* --------------------------------------------------------------------- C10
\* C10: a stale-while-revalidate request for which caches.match found an
\* entry is answered with that entry while its fetch is still pending, and is
\* answered once: the fetch's outcome never reaches that client.
C10_CachedNeverWaits ==
  /\ (obs.kind = "respond" /\ obs.route = SWR /\ obs.hit)
       => /\ obs.via = "cache"
          /\ ~obs.again
          /\ obs.resp \in Stored(caches, obs.url)
          /\ \E s \in InFlight : s.url = obs.url /\ s.pc = "fetch" /\ s.responded
  /\ \A s \in InFlight : (s.route = SWR /\ s.pc = "fetch" /\ s.hit) => s.responded

\* A shell asset was served from the cache with its revalidation in flight.
C10_Witness ==
  /\ obs.kind = "respond" /\ obs.route = SWR /\ obs.via = "cache"
  /\ \E s \in InFlight : s.url = obs.url /\ s.pc = "fetch"

\* --------------------------------------------------------------------- C11
Writing == {SWR, "cache-first"}
\* The number of requests whose fetch returned a response and whose cache
\* write has not settled.
PutCount(b) == BagCardinality([s \in {t \in BagToSet(b) : t.pc = "put"} |-> b[s]])

\* C11: in the stale-while-revalidate and cache-first strategies, the step in
\* which the fetch returns a response gives that very response to the client,
\* unless the client already has the cached one; and the step in which the
\* write settles, applied or failed, gives the client nothing: a failed open
\* or put leaves every cache as it was and is seen by nobody.
C11_WriteFailureUnseen ==
  [][/\ PutCount(reqs') > PutCount(reqs) =>
          \/ /\ obs'.kind = "respond" /\ obs'.via = "network"
             /\ obs'.route \in Writing /\ obs'.resp.kind = "response"
             /\ \E t \in BagToSet(reqs') :
                  t.pc = "put" /\ t.url = obs'.url /\ t.clone = obs'.resp
          \/ /\ obs' = NoObs
             /\ \E s \in InFlight :
                  /\ s.pc = "fetch" /\ s.route = SWR /\ s.hit /\ s.responded
                  /\ CopiesIn(s, reqs') < CopiesIn(s, reqs)
     /\ PutCount(reqs') < PutCount(reqs) => obs'.kind \in {"put", "dropped"}
     /\ obs'.kind = "dropped" => (caches' = caches /\ obs'.route \in Writing)]_vars

\* A write of a stale-while-revalidate or cache-first response was lost.
C11_Witness == obs.kind = "dropped" /\ obs.route \in Writing /\ caches # << >>

\* --------------------------------------------------------------------- C12
\* No network-first request is ever waiting for a cache write, and no write
\* that settled or was lost belonged to one.
NoDynamicWrite ==
  /\ \A s \in InFlight :
       s.route = "network-first" => (s.pc \in {"fetch", "fallback"} /\ s.clone = Undefined)
  /\ obs.kind \in {"put", "dropped"} => obs.route # "network-first"

\* C12: every step of a network-first request (its dispatch, the settlement
\* of its fetch with a response or a rejection, the fallback finding an entry
\* or none) leaves CacheStorage exactly as it was, and the branch never
\* starts a write.
C12_DynamicWritesNothing ==
  [][/\ NoDynamicWrite'
     /\ (\E s \in InFlight \cup BagToSet(reqs') :
           s.route = "network-first" /\ CopiesIn(s, reqs') # CopiesIn(s, reqs))
          => caches' = caches
     /\ (obs'.kind = "respond" /\ obs'.route = "network-first") =>
          (caches' = caches /\ obs'.via \in {"network", "cache", "failure"})]_vars

\* A network-first request was answered by the fallback from a non-empty cache
\* that holds further entries.
C12_Witness ==
  /\ obs.kind = "respond" /\ obs.route = "network-first" /\ obs.via = "cache"
  /\ \E i \in DOMAIN caches : ShellRequests \subseteq DOMAIN caches[i].entries

\* --------------------------------------------------------------------- C13
\* The class the claim's rules give a URL, each rule stated with the negation
\* of the rules before it.
ClassByClaim(url) ==
  { c \in {"excluded", SWR, "cache-first", "network-first"} :
      \/ c = "excluded" /\ ExcludedByClaim(url)
      \/ c = SWR /\ ~ExcludedByClaim(url) /\ StartsWith(url.pathname, "/static/")
      \/ c = "cache-first" /\ ~ExcludedByClaim(url) /\ ~StartsWith(url.pathname, "/static/")
           /\ url.hostname \in {"fonts.googleapis.com", "fonts.gstatic.com"}
      \/ c = "network-first" /\ ~ExcludedByClaim(url) /\ ~StartsWith(url.pathname, "/static/")
           /\ url.hostname \notin {"fonts.googleapis.com", "fonts.gstatic.com"} }

\* C13: every URL is given exactly one class, the one of the first rule it
\* matches in the order excluded, shell-asset, cross-origin-cacheable, dynamic
\* (an exclusion pattern wins over '/static/' and over a font host, '/static/'
\* wins over a font host, anything else is dynamic), and the one strategy of
\* that class is the only thing started for the request.
C13_FirstMatchWins ==
  obs.kind = "classified" =>
    /\ ClassByClaim(obs.url) = {obs.route}
    /\ obs.via = CASE obs.route = "excluded" -> "none"
                   [] obs.route = "network-first" -> "fetch"
                   [] OTHER -> "match"

\* A '/static/' path on a font host was classified, as was an excluded path
\* under '/static/' on a font host.
C13_Witness ==
  /\ obs.kind = "classified"
  /\ obs.url = Url("fonts.gstatic.com", "/static/dist.css")
  /\ obs.route = SWR
  /\ Route(Url("fonts.gstatic.com", "/static/state")) = "excluded"

\* --------------------------------------------------------------------- C14
\* The lifecycle state of generation g, in the claim's words.  A generation
\* whose install failed has no worker any more and counts as uninstalled; an
\* active generation replaced by a newer one has left the chain.
GenState(g) ==
  CASE installing = g -> "installing"
    [] waiting = g -> "installed"
    [] active = g /\ phase = "activating" -> "activating"
    [] active = g /\ phase = "activated" -> "active"
    [] g \in failed \/ g > deployed -> "uninstalled"
    [] OTHER -> "superseded"

LifecycleMoves ==
  { << "uninstalled", "installing" >>, << "installing", "installed" >>,
    << "installing", "uninstalled" >>, << "installed", "activating" >>,
    << "activating", "active" >>, << "active", "superseded" >> }

\* Every generation that is activating or active has every shell asset in its store.
ActiveIsPopulated ==
  \A g \in 1..MaxGen :
    GenState(g) \in {"activating", "active"} =>
      ShellRequests \subseteq DOMAIN EntriesOf(caches, CacheVersion(g))

\* C14: a generation changes state only along uninstalled -> installing ->
\* installed -> activating -> active (and back to uninstalled from a failed
\* install, which leaves the active generation and its state as they were);
\* a generation that is activating or active has a store holding every shell
\* asset; an installed generation starts activating whatever requests of the
\* previous generation are in flight, and from then on every new fetch event
\* of the clients is handled by it.
C14_LifecycleOrder ==
  [][/\ \A g \in 1..MaxGen :
          GenState(g)' # GenState(g) => << GenState(g), GenState(g)' >> \in LifecycleMoves
     /\ ActiveIsPopulated'
     /\ \A g \in 1..MaxGen :
          (GenState(g) = "installing" /\ GenState(g)' = "uninstalled")
            => (active' = active /\ phase' = phase /\ waiting' = 0)
     /\ \A g \in 1..MaxGen :
          (GenState(g) = "installing" /\ GenState(g)' = "installed")
            => ShellRequests \subseteq DOMAIN EntriesOf(caches', CacheVersion(g))
     /\ BagCardinality(reqs') > BagCardinality(reqs) =>
          \E t \in BagToSet(reqs') :
            /\ CopiesIn(t, reqs') > CopiesIn(t, reqs)
            /\ t.gen = active /\ GenState(active) = "active"]_vars

\* Generation 2 took over while a request handled by generation 1 was still in
\* flight, and handles a new request of the clients.
C14_Witness ==
  /\ GenState(2) = "active" /\ GenState(1) = "superseded"
  /\ \E s, t \in InFlight : s.gen = 1 /\ t.gen = 2

\* --------------------------------------------------------------------- C15
\* C15: activation never asks for the deletion of the new generation's store,
\* which therefore exists while that generation is activating or active; and
\* once the generation is activated although one of its deletions failed, a
\* response it reads from a cache is read from its own store, never from the
\* stale store that was left.
C15_StaleStoreNeverRead ==
  /\ active # 0 => CacheVersion(active) \notin pendingDel
  /\ active # 0 => HasCache(caches, CacheVersion(active))
  /\ (delRejected /\ phase = "activated" /\ obs.kind = "respond" /\ obs.via = "cache"
        /\ obs.gen = active)
       => obs.store = CacheVersion(active)

\* --------------------------------------------------------------------- C16
\* C16: a write of the stale-while-revalidate or cache-first strategy that is
\* applied stores a successful response, and every entry of every cache is a
\* successful response.
C16_OnlySuccessStored ==
  /\ (obs.kind = "put" /\ obs.route \in Writing) => obs.resp.ok
  /\ \A i \in DOMAIN caches : \A k \in DOMAIN caches[i].entries : caches[i].entries[k].ok

\* --------------------------------------------------------------------- C17
\* Every entry of every cache is a response, whole.
EntriesComplete ==
  \A i \in DOMAIN caches : \A k \in DOMAIN caches[i].entries :
    caches[i].entries[k].kind = "response"

\* The step applied the write of a request in flight: the response its fetch
\* returned for its own URL is now the entry of that URL in the written
\* cache, and nothing else differs.
WriteApplied ==
  /\ \E s \in InFlight :
       /\ s.pc = "put" /\ s.url = obs'.url /\ s.clone = obs'.resp
       /\ s.clone.kind = "response"
       /\ CopiesIn(s, reqs') < CopiesIn(s, reqs)
  /\ LET e == EntriesOf(caches, obs'.store)
         f == EntriesOf(caches', obs'.store)
     IN /\ HasCache(caches', obs'.store)
        /\ DOMAIN f = DOMAIN e \cup {obs'.url}
        /\ f[obs'.url] = obs'.resp
        /\ \A k \in DOMAIN e \ {obs'.url} : f[k] = e[k]
  /\ \A i \in DOMAIN caches' :
       caches'[i].name = obs'.store \/ (i \in DOMAIN caches /\ caches'[i] = caches[i])
  /\ \A i \in DOMAIN caches : caches'[i].name = caches[i].name

\* The step was no write of a request: the caches are as they were, or some
\* were removed whole, or an empty one was created, or the install stored the
\* fetched shell assets in the store of the generation being installed.
NoWriteApplied ==
  \/ caches' = caches
  \/ \A i \in DOMAIN caches' :
       \/ \E j \in DOMAIN caches : caches'[i] = caches[j]
       \/ caches'[i].entries = EmptyEntries
       \/ /\ caches'[i].name = CacheVersion(installing) /\ installing # 0
          /\ i \in DOMAIN caches /\ caches[i].name = caches'[i].name
          /\ DOMAIN caches'[i].entries = DOMAIN caches[i].entries \cup ShellRequests
          /\ \A k \in DOMAIN caches'[i].entries :
               IF k \in ShellRequests
                 THEN caches'[i].entries[k].kind = "response" /\ caches'[i].entries[k].ok
                 ELSE caches'[i].entries[k] = caches[i].entries[k]

\* C17: under every interleaving of requests, writes and lost writes, a step
\* changes an entry only by putting, whole, the response that a fetch of the
\* handler returned for that same request (or, at install, the fetched shell
\* assets); the entry of a key written by overlapping writes is the response
\* of the write applied last, and no write touches the entry of another key
\* or another cache.
C17_WholeResponsePuts ==
  [][/\ EntriesComplete'
     /\ IF obs'.kind = "put" THEN WriteApplied ELSE NoWriteApplied]_vars

\* A write was applied to a key while another write to the same key, of a
\* different response, has not settled.
C17_Witness ==
  /\ obs.kind = "put"
  /\ \E s \in InFlight : s.pc = "put" /\ s.url = obs.url /\ s.clone # obs.resp
  /\ CachesMatch(caches, obs.url) = obs.resp

\* --------------------------------------------------------------------- C18
\* C18: every request the install pre-caches is taken by the '/static/' rule
\* of the fetch listener, none by an exclusion pattern, so that each of them
\* is handled by the strategy that answers from the store.
C18_ShellAssetsAreShell ==
  /\ \A i \in DOMAIN SHELL_ASSETS :
       ~ExcludedByClaim(ShellRequest(i)) /\ StartsWith(SHELL_ASSETS[i], "/static/")
  /\ (obs.kind = "classified" /\ obs.url \in ShellRequests) =>
       (obs.route = SWR /\ obs.via = "match")

\* The last entry of the list was classified.
C18_Witness ==
  /\ obs.kind = "classified"
  /\ obs.url = ShellRequest(Len(SHELL_ASSETS))
  /\ obs.url.pathname = "/static/qrcode.min.js"

\* --------------------------------------------------------------------- C19
\* The keys the claim allows in a store: the shell asset list and the requests
\* its rules classify shell-asset or cross-origin-cacheable.
StorableByClaim ==
  ShellRequests \cup {u \in ReqUrls : ClassByClaim(u) \cap Writing # {}}

\* C19: every key of every cache is a shell asset or a request classified
\* shell-asset or cross-origin-cacheable, and so is the key of every write
\* under way; hence, from empty stores, the fallback of a network-first
\* request never finds an entry, and such a request is answered by the network
\* or fails for its client.
C19_OnlyWritingKeysStored ==
  /\ \A i \in DOMAIN caches : DOMAIN caches[i].entries \subseteq StorableByClaim
  /\ \A s \in InFlight : s.pc = "put" => s.url \in StorableByClaim
  /\ \A s \in InFlight : s.pc = "fallback" => MatchIndexes(caches, s.url) = {}
  /\ (obs.kind = "respond" /\ obs.route = "network-first") =>
       /\ obs.via \in {"network", "failure"}
       /\ obs.via = "failure" <=> obs.resp = NetworkError

\* A network-first request failed for its client while the stores held the
\* shell assets and a font response.
C19_Witness ==
  /\ obs.kind = "respond" /\ obs.route = "network-first" /\ obs.via = "failure"
  /\ \E i \in DOMAIN caches :
       /\ ShellRequests \subseteq DOMAIN caches[i].entries
       /\ DOMAIN caches[i].entries \ ShellRequests # {}

====
